---- MODULE Spec2Model ----
(***************************************************************************)
(* Model of hoymilesProm.py: the polling loop poll_dtu, the handshake      *)
(* configure_dtu_instance and the labelled gauges the loop writes.         *)
(*                                                                         *)
(* The device library (DTU, is_encrypted_dtu) and the gauge registry are   *)
(* collaborators: a device call is a step whose outcome (a payload, None,  *)
(* a timeout, an exception) is chosen by the environment.                  *)
(***************************************************************************)
EXTENDS Integers, Sequences, FiniteSets, TLC

VARIABLES
    pc,          \* position of poll_dtu inside its while-loop
    dtu,         \* poll_dtu's local dtu: PyNone or the live DTU object
    created,     \* number of DTU objects constructed so far
    app_info,    \* configure_dtu_instance's local app_info, None once it is over
    real_data,   \* poll_dtu's local real_data
    nset,        \* number of Gauge.set calls completed for real_data
    gauges,      \* the gauge registry: (gauge, label tuple) -> value
    changed,     \* history: a Gauge.set call for real_data changed the registry
    once,        \* history: the registry after the previous cycle, when that
                 \* cycle fetched the same payload as this one
    scraped,     \* what the metrics endpoint returned, when it has answered a
                 \* scrape since the loop's last step
    lastReq,     \* history: the most recent device request and its outcome
    prevReq,     \* history: the device request before lastReq
    slept,       \* history: sleeps done since lastReq
    sleptBetween,\* history: sleeps done between prevReq and lastReq
    discarded    \* history: identities of the DTU objects dropped so far

vars == <<pc, dtu, created, app_info, real_data, nset, gauges, changed, once,
          scraped, lastReq, prevReq, slept, sleptBetween, discarded>>

-----------------------------------------------------------------------------
(* Bounds *)

\* The device fails (so that a new DTU object is needed) fewer than this
\* many times; afterwards it only answers.
MaxSessions == 3

-----------------------------------------------------------------------------
(* Python values *)

PyNone == [None |-> TRUE]

\* A field value of a device record: an integer, or a value that is not a
\* number (such as None).
IntVal(n) == [t |-> "int", v |-> n]
NonNumeric == [t |-> "none", v |-> 0]

\* getattr(obj, name, default)
getattr(obj, name, default) == IF name \in DOMAIN obj THEN obj[name] ELSE default

hasattr(obj, name) == name \in DOMAIN obj

\* str() of a port number
Digits == <<"1", "2", "3", "4", "5", "6", "7", "8", "9">>
str(x) == IF x.v = 0 THEN "0" ELSE Digits[x.v]

-----------------------------------------------------------------------------
(* The handshake: configure_dtu_instance *)

\* Feature flags are abstracted to two bits: bit 0 stands for the encryption
\* feature that is_encrypted_dtu tests, bit 1 for any other feature.
DfsValues == 0..3
is_encrypted_dtu(dfs) == dfs % 2 = 1

Keys == {"k1"}

\* The device-info payloads async_app_information_data can return.
AppInfos == [dfs : DfsValues, enc_rand : Keys]

\* DTU(dtu_ip, timeout=...): a new object, not encrypted by default.
DTU(id) == [id |-> id, is_encrypted |-> FALSE, enc_rand |-> ""]

\* What the handshake call gave: nothing, device info without feature flags,
\* or device info with feature flags.
HandshakeResult(info) ==
    IF info = PyNone THEN "nopayload" ELSE IF info.dfs = 0 THEN "nodfs" ELSE "payload"

\* Lines 50-68: the value returned and the DTU object afterwards.
configure_always(info) == TRUE

configure_success(info) == info # PyNone /\ info.dfs # 0

configure_dtu(d, info) ==
    IF info # PyNone /\ info.dfs # 0
    THEN IF is_encrypted_dtu(info.dfs)
         THEN [d EXCEPT !.is_encrypted = TRUE, !.enc_rand = info.enc_rand]
         ELSE [d EXCEPT !.is_encrypted = FALSE, !.enc_rand = ""]
    ELSE d

-----------------------------------------------------------------------------
(* Sleeps of the loop *)

SettleDelay == 5
ShortBackoff == 15
LongBackoff == 10
PollInterval == 60

-----------------------------------------------------------------------------
(* Gauges *)

\* Lines 115-120: gauge, attribute and divisor of each inverter gauge, in
\* the order the loop writes them.
SgsGauges == <<
    [gauge |-> "hoymiles_sgs_voltage",      attr |-> "voltage",      div |-> 10],
    [gauge |-> "hoymiles_sgs_frequency",    attr |-> "frequency",    div |-> 100],
    [gauge |-> "hoymiles_sgs_active_power", attr |-> "active_power", div |-> 10],
    [gauge |-> "hoymiles_sgs_current_amps", attr |-> "current",      div |-> 100],
    [gauge |-> "hoymiles_sgs_power_factor", attr |-> "power_factor", div |-> 10],
    [gauge |-> "hoymiles_sgs_temperature",  attr |-> "temperature",  div |-> 10] >>

\* Lines 128-132: the panel gauges; the two energies are set undivided.
PvGauges == <<
    [gauge |-> "hoymiles_pv_voltage",       attr |-> "voltage",      div |-> 10],
    [gauge |-> "hoymiles_pv_current_amps",  attr |-> "current",      div |-> 100],
    [gauge |-> "hoymiles_pv_current_power", attr |-> "power",        div |-> 10],
    [gauge |-> "hoymiles_pv_energy_total",  attr |-> "energy_total", div |-> 1],
    [gauge |-> "hoymiles_pv_energy_daily",  attr |-> "energy_daily", div |-> 1] >>

\* raw / div, kept exactly, in hundredths of the unit.
TrueDiv(raw, div) == (raw * 100) \div div

\* sn = getattr(rec, 'serial_number', None); if sn: the serial number is
\* present and not empty
HasSerialAttr(rec) == hasattr(rec, "serial_number")

HasSerial(rec) == hasattr(rec, "serial_number") /\ rec["serial_number"] # ""

\* The Gauge.set calls one inverter record leads to (lines 113-120).
SgsCalls(sgs) ==
    IF HasSerial(sgs)
    THEN LET sn == sgs["serial_number"]
         IN [i \in 1..Len(SgsGauges) |->
                [key |-> <<SgsGauges[i].gauge, <<sn>>>>,
                 raw |-> getattr(sgs, SgsGauges[i].attr, IntVal(0)),
                 div |-> SgsGauges[i].div]]
    ELSE <<>>

\* The Gauge.set calls one panel record leads to (lines 125-132).
PvCallsNeedsPort(pv) ==
    IF HasSerial(pv) /\ hasattr(pv, "port_number")
    THEN LET port == str(pv["port_number"])
             sn == pv["serial_number"]
         IN [i \in 1..Len(PvGauges) |->
                [key |-> <<PvGauges[i].gauge, <<sn, port>>>>,
                 raw |-> getattr(pv, PvGauges[i].attr, IntVal(0)),
                 div |-> PvGauges[i].div]]
    ELSE <<>>

PvCalls(pv) ==
    IF HasSerial(pv)
    THEN LET port == IF hasattr(pv, "port_number") THEN str(pv["port_number"])
                     ELSE "unknown"
             sn == pv["serial_number"]
         IN [i \in 1..Len(PvGauges) |->
                [key |-> <<PvGauges[i].gauge, <<sn, port>>>>,
                 raw |-> getattr(pv, PvGauges[i].attr, IntVal(0)),
                 div |-> PvGauges[i].div]]
    ELSE <<>>

RECURSIVE SgsLoop(_)
SgsLoop(recs) ==
    IF recs = <<>> THEN <<>> ELSE SgsCalls(Head(recs)) \o SgsLoop(Tail(recs))

RECURSIVE PvLoop(_)
PvLoop(recs) ==
    IF recs = <<>> THEN <<>> ELSE PvCalls(Head(recs)) \o PvLoop(Tail(recs))

\* Lines 110-132: all Gauge.set calls of one payload, in program order.
SetCalls(data) ==
    IF data = PyNone THEN <<>>
    ELSE (IF hasattr(data, "sgs_data") THEN SgsLoop(getattr(data, "sgs_data", <<>>)) ELSE <<>>)
         \o
         (IF hasattr(data, "pv_data") THEN PvLoop(getattr(data, "pv_data", <<>>)) ELSE <<>>)

\* gauge.labels(...): the series of that label tuple, created at 0 when new.
labels(g, key) == IF key \in DOMAIN g THEN g ELSE g @@ (key :> 0)

\* gauge.labels(...).set(raw / div) with a numeric raw value.
setAdds(g, call) ==
    [labels(g, call.key) EXCEPT ![call.key] = @ + TrueDiv(call.raw.v, call.div)]

setAlone(g, call) == (call.key :> TrueDiv(call.raw.v, call.div))

set(g, call) == [labels(g, call.key) EXCEPT ![call.key] = TrueDiv(call.raw.v, call.div)]

\* Whether evaluating raw / div (or float(raw)) raises.
Raises(call) == call.raw.t # "int"

-----------------------------------------------------------------------------
(* Payloads the device returns *)

Levels == {1, 2}

SgsSample == [voltage |-> 2300, frequency |-> 5000, active_power |-> 2500,
              current |-> 1050, power_factor |-> 970, temperature |-> 350]

PvSample == [voltage |-> 345, current |-> 920, power |-> 3170,
             energy_total |-> 12345, energy_daily |-> 678]

NoAttr == "<absent>"

\* A record from a sample: every field is sample + level; attribute `hole`
\* is left out (how = "absent") or is not a number (how = "none").
Fields(sample, lvl, hole, how) ==
    [a \in (DOMAIN sample) \ (IF how = "absent" THEN {hole} ELSE {}) |->
        IF a = hole /\ how = "none" THEN NonNumeric ELSE IntVal(sample[a] + lvl)]

WithSerial(rec, sn) == IF sn = NoAttr THEN rec ELSE rec @@ [serial_number |-> sn]

SgsRec(sn, lvl, hole, how) == WithSerial(Fields(SgsSample, lvl, hole, how), sn)

PvRec(sn, port, lvl, hole, how) ==
    LET r == WithSerial(Fields(PvSample, lvl, hole, how), sn)
    IN  IF port = 0 THEN r ELSE r @@ [port_number |-> IntVal(port)]

\* The payload shape that comes at every level.
Readings(l) == {
      \* two inverters and a panel
      [sgs_data |-> <<SgsRec("SN1", l, "", ""), SgsRec("SN2", l, "", "")>>,
       pv_data |-> <<PvRec("SN1", 1, l, "", "")>>] }

\* Payload shapes with something missing.
Sparse(l) == {
      \* neither attribute
      <<>>,
      \* records without a serial number next to one with
      \* (the one without carries a field that is not a number)
      [sgs_data |-> <<SgsRec(NoAttr, l, "voltage", "none"), SgsRec("SN2", l, "", "")>>,
       pv_data |-> <<PvRec("", 1, l, "", "")>>],
      \* a panel without port number, fields left out
      [sgs_data |-> <<SgsRec("SN1", l, "temperature", "absent")>>,
       pv_data |-> <<PvRec("SN1", 0, l, "energy_daily", "absent")>>] }

\* Payload shapes with a field that is not a number: the first of a record,
\* in the middle of the second record, an undivided panel field.
Malformed(l) == {
      [sgs_data |-> <<SgsRec("SN1", l, "voltage", "none")>>],
      [sgs_data |-> <<SgsRec("SN1", l, "", ""), SgsRec("SN2", l, "current", "none")>>],
      [sgs_data |-> <<SgsRec("SN2", l, "", "")>>,
       pv_data |-> <<PvRec("SN1", 1, l, "energy_total", "none")>>] }

\* The payloads async_get_real_data_new returns here.
Payloads == Readings(1) \cup Readings(2) \cup Sparse(1) \cup Malformed(2)

\* Payloads all of whose fields are numbers.
Numeric(data) == \A i \in 1..Len(SetCalls(data)) : ~Raises(SetCalls(data)[i])

-----------------------------------------------------------------------------
(* History of device requests *)

\* kind: "handshake" or "fetch"; result: what the device did; obj: the DTU
\* object the request went out on; nsess: DTU objects constructed by then;
\* stale: that object had been dropped before.
NoReq == [kind |-> "none", result |-> "none", obj |-> PyNone, sid |-> 0,
          nsess |-> 0, stale |-> FALSE]

Request(kind, result) ==
    [kind |-> kind, result |-> result, obj |-> dtu, sid |-> dtu.id,
     nsess |-> created, stale |-> dtu.id \in discarded]

\* What is remembered of the registry after a cycle.
NoSnapshot == [valid |-> FALSE, registry |-> <<>>]

Snapshot(g) == [valid |-> TRUE, registry |-> g]

\* A device request is issued: the sleeps since the previous one are filed.
Issue(kind, result) ==
    /\ prevReq' = lastReq
    /\ lastReq' = Request(kind, result)
    /\ sleptBetween' = slept
    /\ slept' = <<>>

Sleep(seconds) == slept' = Append(slept, seconds)

\* The device may still fail in a way that costs the session.
MayFail == created < MaxSessions

-----------------------------------------------------------------------------
(* The loop *)

Init ==
    /\ pc = "top"
    /\ dtu = PyNone
    /\ created = 0
    /\ app_info = PyNone
    /\ real_data = PyNone
    /\ nset = 0
    /\ gauges = <<>>
    /\ changed = FALSE
    /\ once = NoSnapshot
    /\ scraped = NoSnapshot
    /\ lastReq = NoReq
    /\ prevReq = NoReq
    /\ slept = <<>>
    /\ sleptBetween = <<>>
    /\ discarded = {}

\* dtu = None (lines 85 and 137)
InvalidateKeeps(d) == d

Invalidate(d) == PyNone

\* Lines 97-106: on None the session is left as it is.
SoftMissInvalidates(d) == PyNone

SoftMiss(d) == d

\* Lines 134-140: the handler, up to its sleep.
ExceptKeepsSession ==
    /\ dtu' = dtu
    /\ discarded' = discarded \cup {dtu.id}
    /\ pc' = "backoff_long"

Except ==
    /\ dtu' = Invalidate(dtu)
    /\ discarded' = discarded \cup {dtu.id}
    /\ pc' = "backoff_long"

\* Lines 76-79: no session, so a new DTU object is made.
CreateSession ==
    /\ pc = "top"
    /\ dtu = PyNone
    /\ created' = created + 1
    /\ dtu' = DTU(created + 1)
    /\ pc' = "handshake"
    /\ scraped' = NoSnapshot
    /\ UNCHANGED <<app_info, real_data, nset, gauges, changed, once, lastReq,
                   prevReq, slept, sleptBetween, discarded>>

\* Line 76, dtu is not None: straight to the data request.
ReuseSession ==
    /\ pc = "top"
    /\ dtu # PyNone
    /\ pc' = "fetch"
    /\ scraped' = NoSnapshot
    /\ UNCHANGED <<dtu, created, app_info, real_data, nset, gauges, changed, once,
                   lastReq, prevReq, slept, sleptBetween, discarded>>

\* Lines 82-90 with 48-68: the handshake call returns info (None or a payload).
HandshakeReturns(info) ==
    /\ pc = "handshake"
    /\ configure_success(info) \/ MayFail
    /\ app_info' = info
    /\ IF configure_success(info)
       THEN /\ dtu' = configure_dtu(dtu, info)
            /\ pc' = "settle"
            /\ Issue("handshake", HandshakeResult(info))
            /\ UNCHANGED discarded
       ELSE /\ dtu' = Invalidate(dtu)
            /\ discarded' = discarded \cup {dtu.id}
            /\ pc' = "backoff_short"
            /\ Issue("handshake", HandshakeResult(info))
    /\ scraped' = NoSnapshot
    /\ UNCHANGED <<created, real_data, nset, gauges, changed, once>>

\* Line 48 raises (connection error, timeout): caught at line 134.
HandshakeRaises ==
    /\ pc = "handshake"
    /\ MayFail
    /\ Except
    /\ Issue("handshake", "raised")
    /\ scraped' = NoSnapshot
    /\ UNCHANGED <<created, app_info, real_data, nset, gauges, changed, once>>

\* Line 91
SettleSkipped ==
    /\ pc = "settle"
    /\ app_info' = PyNone
    /\ pc' = "fetch"
    /\ scraped' = NoSnapshot
    /\ UNCHANGED <<dtu, created, real_data, nset, gauges, changed, once,
                   lastReq, prevReq, slept, sleptBetween, discarded>>

Settle ==
    /\ pc = "settle"
    /\ Sleep(SettleDelay)
    /\ app_info' = PyNone
    /\ pc' = "fetch"
    /\ scraped' = NoSnapshot
    /\ UNCHANGED <<dtu, created, real_data, nset, gauges, changed, once,
                   lastReq, prevReq, sleptBetween, discarded>>

\* Lines 86-87
BackoffShortSkipped ==
    /\ pc = "backoff_short"
    /\ app_info' = PyNone
    /\ pc' = "top"
    /\ scraped' = NoSnapshot
    /\ UNCHANGED <<dtu, created, real_data, nset, gauges, changed, once,
                   lastReq, prevReq, slept, sleptBetween, discarded>>

BackoffShort ==
    /\ pc = "backoff_short"
    /\ Sleep(ShortBackoff)
    /\ app_info' = PyNone
    /\ pc' = "top"
    /\ scraped' = NoSnapshot
    /\ UNCHANGED <<dtu, created, real_data, nset, gauges, changed, once,
                   lastReq, prevReq, sleptBetween, discarded>>

\* Lines 139-140
BackoffLongStops ==
    /\ pc = "backoff_long"
    /\ Sleep(LongBackoff)
    /\ app_info' = PyNone
    /\ pc' = "stopped"
    /\ scraped' = NoSnapshot
    /\ UNCHANGED <<dtu, created, real_data, nset, gauges, changed, once,
                   lastReq, prevReq, sleptBetween, discarded>>

BackoffLong ==
    /\ pc = "backoff_long"
    /\ Sleep(LongBackoff)
    /\ app_info' = PyNone
    /\ pc' = "top"
    /\ scraped' = NoSnapshot
    /\ UNCHANGED <<dtu, created, real_data, nset, gauges, changed, once,
                   lastReq, prevReq, sleptBetween, discarded>>

\* Line 143
PollSleep ==
    /\ pc = "poll_sleep"
    /\ Sleep(PollInterval)
    /\ pc' = "top"
    /\ scraped' = NoSnapshot
    /\ UNCHANGED <<dtu, created, app_info, real_data, nset, gauges, changed, once,
                   lastReq, prevReq, sleptBetween, discarded>>

\* Where the loop is after `done` of the Gauge.set calls of data.
AfterSet(data, done) == IF done >= Len(SetCalls(data)) THEN "poll_sleep" ELSE "process"

\* Lines 95-108: the data request returns a payload.
FetchReturnsData(data) ==
    /\ pc = "fetch"
    /\ Numeric(data) \/ MayFail
    /\ real_data' = data
    /\ nset' = 0
    /\ changed' = FALSE
    /\ once' = IF data = real_data THEN Snapshot(gauges) ELSE NoSnapshot
    /\ pc' = AfterSet(data, 0)
    /\ Issue("fetch", "data")
    /\ scraped' = NoSnapshot
    /\ UNCHANGED <<dtu, created, app_info, gauges, discarded>>

\* Lines 95-106: the data request returns None.
FetchReturnsNoneZeroes ==
    /\ pc = "fetch"
    /\ real_data' = PyNone
    /\ nset' = 0
    /\ changed' = FALSE
    /\ once' = NoSnapshot
    /\ gauges' = [key \in DOMAIN gauges |-> 0]
    /\ dtu' = SoftMiss(dtu)
    /\ pc' = "poll_sleep"
    /\ Issue("fetch", "none")
    /\ scraped' = NoSnapshot
    /\ UNCHANGED <<created, app_info, discarded>>

FetchReturnsNone ==
    /\ pc = "fetch"
    /\ real_data' = PyNone
    /\ nset' = 0
    /\ changed' = FALSE
    /\ once' = NoSnapshot
    /\ dtu' = SoftMiss(dtu)
    /\ pc' = "poll_sleep"
    /\ Issue("fetch", "none")
    /\ scraped' = NoSnapshot
    /\ UNCHANGED <<created, app_info, gauges, discarded>>

\* Line 95 times out (how = "timeout") or raises (how = "raised").
FetchFails(how) ==
    /\ pc = "fetch"
    /\ MayFail
    /\ Except
    /\ Issue("fetch", how)
    /\ scraped' = NoSnapshot
    /\ UNCHANGED <<created, app_info, real_data, nset, gauges, changed, once>>

\* One of lines 115-120, 128-132: the next Gauge.set call, with a number.
SetGauge ==
    /\ pc = "process"
    /\ LET call == SetCalls(real_data)[nset + 1]
       IN  /\ ~Raises(call)
           /\ gauges' = set(gauges, call)
    /\ changed' = (changed \/ gauges' # gauges)
    /\ nset' = nset + 1
    /\ pc' = AfterSet(real_data, nset + 1)
    /\ scraped' = NoSnapshot
    /\ UNCHANGED <<once, dtu, created, app_info, real_data, lastReq,
                   prevReq, slept, sleptBetween, discarded>>

\* One of lines 115-120, 128-132 raises on a value that is not a number:
\* labels() has run, set() has not.
SetGaugeRaises ==
    /\ pc = "process"
    /\ LET call == SetCalls(real_data)[nset + 1]
       IN  /\ Raises(call)
           /\ gauges' = labels(gauges, call.key)
    /\ Except
    /\ scraped' = NoSnapshot
    /\ UNCHANGED <<created, app_info, real_data, nset, changed, once, lastReq,
                   prevReq, slept, sleptBetween>>

\* Lines 115-120, 128-132, as the metrics endpoint's thread can see them:
\* labels() has made the new series, at 0, and set() has yet to run.
Labels ==
    /\ pc = "process"
    /\ SetCalls(real_data)[nset + 1].key \notin DOMAIN gauges
    /\ gauges' = labels(gauges, SetCalls(real_data)[nset + 1].key)
    /\ scraped' = NoSnapshot
    /\ UNCHANGED <<pc, dtu, created, app_info, real_data, nset, changed, once,
                   lastReq, prevReq, slept, sleptBetween, discarded>>

\* Line 148: the endpoint started by start_http_server answers a scrape from
\* its own thread with the registry as it is; the loop is not involved.
ScrapeCached ==
    /\ scraped' = Snapshot(once.registry)
    /\ UNCHANGED <<pc, dtu, created, app_info, real_data, nset, gauges, changed,
                   once, lastReq, prevReq, slept, sleptBetween, discarded>>

Scrape ==
    /\ scraped' = Snapshot(gauges)
    /\ UNCHANGED <<pc, dtu, created, app_info, real_data, nset, gauges, changed,
                   once, lastReq, prevReq, slept, sleptBetween, discarded>>

Next ==
    \/ CreateSession
    \/ ReuseSession
    \/ \E info \in AppInfos \cup {PyNone} : HandshakeReturns(info)
    \/ HandshakeRaises
    \/ Settle
    \/ BackoffShort
    \/ BackoffLong
    \/ PollSleep
    \/ \E data \in Payloads : FetchReturnsData(data)
    \/ FetchReturnsNone
    \/ \E how \in {"timeout", "raised"} : FetchFails(how)
    \/ SetGauge
    \/ SetGaugeRaises

Spec == Init /\ [][Next]_vars

\* The event loop runs the coroutine whenever it can take a step.
FairSpec == Spec /\ WF_vars(Next)

\* The loop and the metrics endpoint's thread side by side.
ScrapeNext ==
    \/ Next
    \/ Labels
    \/ Scrape

ScrapeSpec == Init /\ [][ScrapeNext]_vars

-----------------------------------------------------------------------------
TypeOK ==
    /\ pc \in {"top", "handshake", "settle", "backoff_short", "backoff_long",
               "fetch", "process", "poll_sleep"}
    /\ created \in 0..MaxSessions
    /\ nset \in 0..Len(SetCalls(real_data))
    /\ Len(slept) <= 1
    /\ changed \in BOOLEAN
    /\ once.valid \in BOOLEAN
    /\ scraped.valid \in BOOLEAN

-----------------------------------------------------------------------------
(* Properties *)

SoftMissed(r) == r.kind = "fetch" /\ r.result = "none"
FetchFailed(r) == r.kind = "fetch" /\ r.result \in {"timeout", "raised"}
NoPayload(r) == r.kind = "handshake" /\ r.result = "nopayload"
Established(r) == r.kind = "handshake" /\ r.result = "payload"
GotData(r) == r.kind = "fetch" /\ r.result = "data"

\* C1: after a data fetch that returned None the session object is the one
\* the fetch went out on, unchanged and not dropped, no DTU object has been
\* constructed and no handshake made, the loop sleeps 60s, and the next
\* device request is a data fetch on that same session.
C1_SoftMissKeepsSession ==
    /\ SoftMissed(lastReq) =>
          /\ dtu = lastReq.obj
          /\ dtu # PyNone
          /\ lastReq.sid \notin discarded
          /\ created = lastReq.nsess
          /\ pc \in {"poll_sleep", "top", "fetch"}
          /\ slept = IF pc = "poll_sleep" THEN <<>> ELSE <<PollInterval>>
    /\ SoftMissed(prevReq) =>
          /\ lastReq.kind = "fetch"
          /\ lastReq.obj = prevReq.obj
          /\ lastReq.nsess = prevReq.nsess
          /\ sleptBetween = <<PollInterval>>

\* Two soft misses in a row, and the loop about to fetch a third time.
C1_Witness ==
    /\ SoftMissed(prevReq)
    /\ SoftMissed(lastReq)
    /\ pc = "fetch"

\* C2: after a data fetch that timed out or raised, the session is dropped,
\* the loop sleeps 10s, the next device request is a handshake on a DTU
\* object constructed after the failure, and no data fetch ever goes out on
\* a dropped session.
C2_FetchFailureRebuilds ==
    /\ FetchFailed(lastReq) =>
          /\ lastReq.sid \in discarded
          /\ dtu # PyNone => dtu.id > lastReq.sid
          /\ pc \in {"backoff_long", "top", "handshake"}
          /\ pc \in {"backoff_long", "top"} => dtu = PyNone
          /\ slept = IF pc = "backoff_long" THEN <<>> ELSE <<LongBackoff>>
    /\ FetchFailed(prevReq) =>
          /\ lastReq.kind = "handshake"
          /\ lastReq.sid > prevReq.sid
          /\ lastReq.nsess = prevReq.nsess + 1
          /\ sleptBetween = <<LongBackoff>>
    /\ lastReq.kind = "fetch" => ~lastReq.stale

\* A fetch timed out, and the handshake on the new session has been made.
C2_Witness ==
    /\ FetchFailed(prevReq)
    /\ prevReq.result = "timeout"
    /\ lastReq.kind = "handshake"

\* C3: after a handshake that returned no device info, the session is
\* dropped, the loop sleeps 15s, the next device request is a handshake on a
\* new DTU object, and a data fetch only ever follows a handshake that
\* returned device info with feature flags, or a fetch.
C3_HandshakeFailureRetries ==
    /\ NoPayload(lastReq) =>
          /\ lastReq.sid \in discarded
          /\ dtu # PyNone => dtu.id > lastReq.sid
          /\ pc \in {"backoff_short", "top", "handshake"}
          /\ pc \in {"backoff_short", "top"} => dtu = PyNone
          /\ slept = IF pc = "backoff_short" THEN <<>> ELSE <<ShortBackoff>>
    /\ NoPayload(prevReq) =>
          /\ lastReq.kind = "handshake"
          /\ lastReq.sid > prevReq.sid
          /\ lastReq.nsess = prevReq.nsess + 1
          /\ sleptBetween = <<ShortBackoff>>
    /\ lastReq.kind = "fetch" =>
          /\ ~lastReq.stale
          /\ prevReq.kind = "handshake" => Established(prevReq)

\* A handshake returned nothing and the next one succeeded.
C3_Witness ==
    /\ NoPayload(prevReq)
    /\ Established(lastReq)
    /\ pc = "fetch"

\* C4: the request after a successful handshake is a data fetch on that
\* session with exactly the 5s settle delay in between; a data fetch right
\* after a handshake always has that delay before it; between two data
\* fetches there is no settle delay.
C4_SettleBeforeFirstFetch ==
    /\ Established(lastReq) =>
          /\ pc \in {"settle", "fetch"}
          /\ slept = IF pc = "settle" THEN <<>> ELSE <<SettleDelay>>
    /\ Established(prevReq) =>
          /\ lastReq.kind = "fetch"
          /\ lastReq.sid = prevReq.sid
          /\ sleptBetween = <<SettleDelay>>
    /\ (lastReq.kind = "fetch" /\ prevReq.kind = "handshake") =>
          sleptBetween = <<SettleDelay>>
    /\ (lastReq.kind = "fetch" /\ prevReq.kind = "fetch") =>
          /\ lastReq.sid = prevReq.sid
          /\ \A i \in 1..Len(sleptBetween) : sleptBetween[i] # SettleDelay

\* The first fetch on a re-established session has been made, and a later
\* fetch reuses a session.
C4_Witness ==
    /\ lastReq.kind = "fetch"
    /\ prevReq.kind = "fetch"
    /\ lastReq.nsess > 1
    /\ pc = "fetch"

\* The cycle that fetched real_data has ended: through the poll sleep, or
\* through the handler.
CycleEnded == GotData(lastReq) /\ pc \in {"poll_sleep", "backoff_long"}

\* C5: after a data fetch that returned a payload, whatever its field values,
\* all its Gauge.set calls are made, the session is kept, the loop sleeps
\* 60s and the next device request is a data fetch on the same session.
C5_PayloadKeepsSession ==
    /\ CycleEnded =>
          /\ nset = Len(SetCalls(real_data))
          /\ dtu = lastReq.obj
          /\ pc = "poll_sleep"
    /\ GotData(prevReq) =>
          /\ lastReq.kind = "fetch"
          /\ lastReq.obj = prevReq.obj
          /\ sleptBetween = <<PollInterval>>

\* C6: when a cycle has ended, through the poll sleep or through the handler,
\* either every Gauge.set call of the fetched payload has been made or the
\* registry has not been changed by that cycle.
C6_NoPartialPublication ==
    CycleEnded => (nset = Len(SetCalls(real_data)) \/ ~changed)

\* A device request of any kind.
DeviceRequest ==
    \/ \E info \in AppInfos \cup {PyNone} : HandshakeReturns(info)
    \/ HandshakeRaises
    \/ \E data \in Payloads : FetchReturnsData(data)
    \/ FetchReturnsNone
    \/ \E how \in {"timeout", "raised"} : FetchFails(how)

\* C7: the loop never ends: whatever failures have occurred, it always
\* eventually makes another device request.
C7_AlwaysAnotherRequest == []<><<DeviceRequest>>_vars

\* Every failure the device is allowed has occurred, the last one an
\* exception while the gauges were being set, and the loop is in its backoff.
C7_Witness ==
    /\ Cardinality(discarded) = MaxSessions - 1
    /\ GotData(lastReq)
    /\ prevReq.kind = "handshake"
    /\ pc = "backoff_long"

\* C8: after a handshake call that raised or timed out, the loop sleeps the
\* 15s short backoff before the next device request.
C8_HandshakeErrorShortBackoff ==
    (prevReq.kind = "handshake" /\ prevReq.result = "raised") =>
        sleptBetween = <<ShortBackoff>>

\* C9: after a handshake that returned device info, establishment has
\* succeeded and the session is encrypted with the key of the device info
\* if the info indicates encryption, and unencrypted with an empty key
\* otherwise.
C9_PayloadDeterminesEncryption ==
    (pc \in {"settle", "backoff_short"} /\ app_info # PyNone) =>
        /\ pc = "settle"
        /\ dtu # PyNone
        /\ dtu.is_encrypted = is_encrypted_dtu(app_info.dfs)
        /\ dtu.enc_rand = IF is_encrypted_dtu(app_info.dfs)
                          THEN app_info.enc_rand ELSE ""

\* The divisor the scaling table gives for a gauge.
TableDivisor(gauge) ==
    CASE gauge = "hoymiles_sgs_voltage"      -> 10
      [] gauge = "hoymiles_sgs_frequency"    -> 100
      [] gauge = "hoymiles_sgs_active_power" -> 10
      [] gauge = "hoymiles_sgs_current_amps" -> 100
      [] gauge = "hoymiles_sgs_power_factor" -> 10
      [] gauge = "hoymiles_sgs_temperature"  -> 10
      [] gauge = "hoymiles_pv_voltage"       -> 10
      [] gauge = "hoymiles_pv_current_amps"  -> 100
      [] gauge = "hoymiles_pv_current_power" -> 10
      [] gauge = "hoymiles_pv_energy_total"  -> 1
      [] gauge = "hoymiles_pv_energy_daily"  -> 1

\* The gauge of a Gauge.set call holds raw / divisor (in hundredths).
Holds(call) ==
    /\ call.key \in DOMAIN gauges
    /\ gauges[call.key] * TableDivisor(call.key[1]) = call.raw.v * 100

\* C10: when a cycle has ended, for every record of the payload with a serial
\* number, every gauge of the record's label tuple holds raw / divisor per
\* the scaling table, an absent field counting as 0.
C10_GaugesHoldScaledValues ==
    CycleEnded =>
        \A i \in 1..Len(SetCalls(real_data)) :
            LET call == SetCalls(real_data)[i]
            IN  call.raw.t = "int" => Holds(call)

-----------------------------------------------------------------------------
(* Records and series, as the properties below speak of them *)

\* The records of one list of a payload.
RecordsOf(data, list) ==
    IF data = PyNone THEN <<>> ELSE IF list \in DOMAIN data THEN data[list] ELSE <<>>

\* A record with a serial number that is present and not empty.
Attributable(rec) == "serial_number" \in DOMAIN rec /\ rec["serial_number"] # ""

\* The raw value of a field, an absent field counting as 0.
RawOf(rec, attr) == IF attr \in DOMAIN rec THEN rec[attr].v ELSE 0

\* Decimal form of a port number.
Decimal(n) ==
    CASE n = 0 -> "0" [] n = 1 -> "1" [] n = 2 -> "2" [] n = 3 -> "3"
      [] n = 4 -> "4" [] n = 5 -> "5" [] n = 6 -> "6" [] n = 7 -> "7"
      [] n = 8 -> "8" [] n = 9 -> "9"

SgsLabel(rec) == <<rec["serial_number"]>>

PvLabel(rec) ==
    <<rec["serial_number"],
      IF "port_number" \in DOMAIN rec THEN Decimal(rec["port_number"].v) ELSE "unknown">>

\* The series (gauge, label) exists and holds raw / divisor of the table.
Published(gauge, label, raw) ==
    /\ <<gauge, label>> \in DOMAIN gauges
    /\ gauges[<<gauge, label>>] * TableDivisor(gauge) = raw * 100

SgsPublished(rec) ==
    \A i \in 1..Len(SgsGauges) :
        Published(SgsGauges[i].gauge, SgsLabel(rec), RawOf(rec, SgsGauges[i].attr))

PvPublished(rec) ==
    \A i \in 1..Len(PvGauges) :
        Published(PvGauges[i].gauge, PvLabel(rec), RawOf(rec, PvGauges[i].attr))

\* The payload has a record that cannot be attributed to a series.
HasUnattributable(data) ==
    \/ \E i \in 1..Len(RecordsOf(data, "sgs_data")) : ~Attributable(RecordsOf(data, "sgs_data")[i])
    \/ \E i \in 1..Len(RecordsOf(data, "pv_data")) : ~Attributable(RecordsOf(data, "pv_data")[i])

\* C11: no series ever carries an empty or missing serial number as its
\* label, and a cycle whose payload has a record without serial number ends
\* with every record that has one published.
C11_UnattributableRecordsSkipped ==
    /\ \A key \in DOMAIN gauges : key[2][1] \in {"SN1", "SN2"}
    /\ (CycleEnded /\ HasUnattributable(real_data)) =>
          /\ \A i \in 1..Len(RecordsOf(real_data, "sgs_data")) :
                Attributable(RecordsOf(real_data, "sgs_data")[i])
                    => SgsPublished(RecordsOf(real_data, "sgs_data")[i])
          /\ \A i \in 1..Len(RecordsOf(real_data, "pv_data")) :
                Attributable(RecordsOf(real_data, "pv_data")[i])
                    => PvPublished(RecordsOf(real_data, "pv_data")[i])

\* A cycle has ended whose payload had records without serial number before
\* and after a record with one, and that record's series exist.
C11_Witness ==
    /\ CycleEnded
    /\ HasUnattributable(real_data)
    /\ Len(RecordsOf(real_data, "sgs_data")) = 2
    /\ ~Attributable(RecordsOf(real_data, "sgs_data")[1])
    /\ SgsPublished(RecordsOf(real_data, "sgs_data")[2])

\* The series a step creates or gives another value.
Touched == {key \in DOMAIN gauges' : key \notin DOMAIN gauges \/ gauges'[key] # gauges[key]}

\* C12: no step removes a series, and a series changes its value only by the
\* Gauge.set call the loop is at, which is for that series; every other
\* step (soft miss, failed handshake, failed fetch, new session, a cycle
\* whose payload lacks the device) leaves series and values as they are.
C12_SeriesOnlyGrow ==
    [][ /\ DOMAIN gauges \subseteq DOMAIN gauges'
        /\ Touched # {} =>
              /\ pc = "process"
              /\ Touched = {SetCalls(real_data)[nset + 1].key} ]_vars

\* A series of SN1 still holds its value after the session was rebuilt and
\* a cycle has published a payload without SN1.
C12_Witness ==
    /\ CycleEnded
    /\ pc = "poll_sleep"
    /\ discarded # {}
    /\ RecordsOf(real_data, "sgs_data") # <<>>
    /\ \A i \in 1..Len(RecordsOf(real_data, "sgs_data")) :
          getattr(RecordsOf(real_data, "sgs_data")[i], "serial_number", "") # "SN1"
    /\ <<"hoymiles_sgs_voltage", <<"SN1">>>> \in DOMAIN gauges
    /\ gauges[<<"hoymiles_sgs_voltage", <<"SN1">>>>] # 0

\* Number of Gauge.set calls that come before those of panel record r.
CallsBeforePv(data, r) ==
    Len(SgsGauges) * Cardinality({i \in 1..Len(RecordsOf(data, "sgs_data")) :
                                    Attributable(RecordsOf(data, "sgs_data")[i])})
    + Len(PvGauges) * Cardinality({i \in 1..(r - 1) :
                                    Attributable(RecordsOf(data, "pv_data")[i])})

\* C14: of every panel record with a serial number, with or without
\* port_number, each gauge the loop has got to is published under
\* (serial number, "unknown") when the record has no port_number and under
\* (serial number, decimal port) when it has; a cycle that runs to its poll
\* sleep has got to all five.
C14_PanelLabel ==
    GotData(lastReq) =>
        \A r \in 1..Len(RecordsOf(real_data, "pv_data")) :
            LET pv == RecordsOf(real_data, "pv_data")[r]
                before == CallsBeforePv(real_data, r)
            IN  Attributable(pv) =>
                  /\ \A i \in 1..Len(PvGauges) :
                        before + i <= nset =>
                            Published(PvGauges[i].gauge, PvLabel(pv),
                                      RawOf(pv, PvGauges[i].attr))
                  /\ pc = "poll_sleep" => before + Len(PvGauges) <= nset

\* A cycle has published a panel record without port_number, and a series
\* of a panel record with port 1 exists as well.
C14_Witness ==
    /\ CycleEnded
    /\ pc = "poll_sleep"
    /\ Len(RecordsOf(real_data, "pv_data")) = 1
    /\ Attributable(RecordsOf(real_data, "pv_data")[1])
    /\ "port_number" \notin DOMAIN RecordsOf(real_data, "pv_data")[1]
    /\ <<"hoymiles_pv_voltage", <<"SN1", "unknown">>>> \in DOMAIN gauges
    /\ <<"hoymiles_pv_voltage", <<"SN1", "1">>>> \in DOMAIN gauges

\* C16: at most one DTU object is live, it is the one constructed last and
\* has not been dropped; every data fetch goes out on the object constructed
\* last, after a successful handshake on that object or an earlier fetch on
\* it; no request of any kind goes out on a dropped object.
C16_OneLiveSession ==
    /\ Cardinality((1..created) \ discarded) <= 1
    /\ dtu # PyNone => (dtu.id = created /\ dtu.id \notin discarded)
    /\ dtu = PyNone => discarded = 1..created
    /\ ~lastReq.stale
    /\ lastReq.kind = "fetch" =>
          /\ lastReq.sid = lastReq.nsess
          /\ \/ Established(prevReq)
             \/ prevReq.kind = "fetch" /\ prevReq.result \in {"none", "data"}
          /\ prevReq.sid = lastReq.sid

\* A data fetch on the third DTU object, the two before it dropped after a
\* failed handshake and after an error.
C16_Witness ==
    /\ lastReq.kind = "fetch"
    /\ lastReq.sid = 3
    /\ discarded = {1, 2}
    /\ dtu # PyNone

\* The sleep the loop owes after a device request, by its outcome.
SleepAfter(r, data) ==
    CASE r.kind = "handshake" /\ r.result = "payload" -> SettleDelay
      [] r.kind = "handshake" /\ r.result \in {"nopayload", "nodfs"} -> ShortBackoff
      [] r.result \in {"raised", "timeout"} -> LongBackoff
      [] r.kind = "fetch" /\ r.result = "none" -> PollInterval
      [] r.kind = "fetch" /\ r.result = "data" ->
            IF Numeric(data) THEN PollInterval ELSE LongBackoff

\* C17: between two consecutive device requests exactly one sleep is done,
\* and it is the one the outcome of the earlier request calls for: 5s after
\* a successful handshake, 15s after a handshake without payload, 10s after
\* an exception, 60s after a completed cycle.
C17_OneSleepBetweenRequests ==
    /\ Len(slept) <= 1
    /\ prevReq.kind # "none" =>
          /\ Len(sleptBetween) = 1
          /\ sleptBetween[1] \in {SettleDelay, ShortBackoff, LongBackoff, PollInterval}
    /\ (lastReq.kind # "none" /\ pc \in {"top", "handshake", "fetch"}) =>
          slept = <<SleepAfter(lastReq, real_data)>>
    /\ (lastReq.kind # "none" /\ pc \in {"settle", "backoff_short", "backoff_long",
                                         "poll_sleep", "process"}) =>
          slept = <<>>

\* The loop is about to make a request after each of the four sleeps has
\* been seen: 15s and 5s around the handshakes, then 60s, now 10s.
C17_Witness ==
    /\ pc = "handshake"
    /\ slept = <<LongBackoff>>
    /\ sleptBetween = <<PollInterval>>
    /\ lastReq.kind = "fetch"
    /\ prevReq.kind = "fetch"
    /\ discarded # {}

\* C18: a step that is not a Gauge.set call (session creation, a handshake and
\* its outcome, the settle delay, the backoffs, a data fetch that returns
\* None, times out or raises, the poll sleep) leaves the registry as it is.
C18_NoPayloadNoChange ==
    [][ pc # "process" => gauges' = gauges ]_vars

\* Series exist, and a cycle without payload has just ended on a rebuilt
\* session.
C18_Witness ==
    /\ gauges # <<>>
    /\ SoftMissed(lastReq)
    /\ lastReq.nsess > 1
    /\ pc = "poll_sleep"

\* C15: when a cycle has fetched the same payload as the cycle before it,
\* the registry at its end has the same series with the same values as at
\* the end of the cycle before.
C15_PublishIdempotent ==
    (once.valid /\ CycleEnded) => gauges = once.registry

\* The same payload, with readings in it, has been published in two cycles
\* running.
C15_Witness ==
    /\ once.valid
    /\ CycleEnded
    /\ pc = "poll_sleep"
    /\ nset > 0
    /\ gauges # <<>>

\* The value the Gauge.set call at hand assigns.
NewValue(call) == TrueDiv(call.raw.v, call.div)

\* C13: the loop writes one series per step, taking it from the value it had
\* (0 for a series labels() has just made) straight to the value of the
\* Gauge.set call at hand, and never two series in one step; a scrape
\* returns every series with the value it has at that moment and changes
\* nothing, so what it reads for a series is the value before or after that
\* series' set, whatever the other series of the payload hold.
C13_ScrapeReadsSeriesBySeries ==
    [][ /\ DOMAIN gauges \subseteq DOMAIN gauges'
        /\ Cardinality(Touched) <= 1
        /\ \A key \in Touched :
              /\ pc = "process"
              /\ key = SetCalls(real_data)[nset + 1].key
              /\ \/ key \notin DOMAIN gauges /\ gauges'[key] = 0
                 \/ /\ ~Raises(SetCalls(real_data)[nset + 1])
                    /\ gauges'[key] = NewValue(SetCalls(real_data)[nset + 1])
        /\ scraped'.valid => (scraped'.registry = gauges /\ gauges' = gauges)
      ]_vars

\* A scrape taken in the middle of a cycle: one series of the payload has
\* this cycle's value, another still has an older cycle's value.
C13_Witness ==
    /\ scraped.valid
    /\ pc = "process"
    /\ \E i \in 1..nset, j \in (nset + 1)..Len(SetCalls(real_data)) :
          LET new == SetCalls(real_data)[i]
              old == SetCalls(real_data)[j]
          IN  /\ ~Raises(old)
              /\ new.key \in DOMAIN scraped.registry
              /\ old.key \in DOMAIN scraped.registry
              /\ scraped.registry[new.key] = NewValue(new)
              /\ scraped.registry[old.key] \notin {0, NewValue(old)}

====
